---- MODULE Spec2Model ----
(***************************************************************************)
(* A model of the WAF admin portal's request-analysis core:                *)
(*   - the WAF engine (server/waf/engine.ts): setCustomRules and           *)
(*     analyzeRequest, with the content extractor, the rule matcher and    *)
(*     the scoring and decision steps;                                     *)
(*   - the rate limiter (server/middleware.ts);                            *)
(*   - the ingestion and analysis-only routes (server/routes.ts).          *)
(*                                                                         *)
(* Strings are sequences of lexical tokens: "/../etc" is                   *)
(* <<"/", "..", "/", "etc">>.  A regular expression is modelled by the     *)
(* token sequences it accepts.  The tokens QUOTE, BACKSLASH and BACKTICK   *)
(* stand for the characters of those names.                                *)
(***************************************************************************)
EXTENDS Integers, Sequences, FiniteSets, TLC

VARIABLES
    customRules,     \* WafEngine.customRules, the field of the one shared engine
    lastPassed,      \* observation: the rule list last passed to setCustomRules
    thresholds,      \* the threshold triple the analyses of SpecEngine are made with
    last,            \* observation: what the latest analyzeRequest returned
    prev,            \* observation: score and action of the analysis before it
    lastRequest,     \* observation: the request the latest analyzeRequest was given
    now,             \* Date.now(), in milliseconds
    rateLimitStore,  \* middleware.ts rateLimitStore: key -> {count, resetTime}
    maxRequests,     \* the maxRequests the limiter was created with
    inflight,        \* downstream handlers started by next() and not yet finished
    win,             \* observation, per key: the current window as the callers see it
    lastCall,        \* observation: the latest rate-limited call and its outcome
    unswept,         \* observation: the store as the same calls leave it when no
                     \* cleanup loop ever runs
    calls,           \* the ingestion and analysis-only calls: position and locals
    requests,        \* rows of the requests table
    analyses,        \* rows of the analysis table
    alerts,          \* rows of the alerts table
    events,          \* what the SSE server was asked to broadcast, in order
    job,             \* the run of anonymizeOldIPs in progress: position and rows found
    ipHistory,       \* observation, per row: its client IP as first stored, and
                     \* the number of times anonymizeOldIPs has updated it
    records,         \* per kind of stored record: how often the API has written it
    lastApi,         \* observation: the latest API call, its caller's role and status
    hook,            \* the state of one mounted useSSE hook and its EventSource
    handled          \* observation: the events handed to the hook's subscribers

engineVars == <<customRules, lastPassed, thresholds, last, prev, lastRequest>>
rateVars == <<now, rateLimitStore, maxRequests, inflight, win, lastCall, unswept>>
ingressVars == <<calls, requests, analyses, alerts, events>>
retentionVars == <<job, ipHistory>>
apiVars == <<records, lastApi>>
sseVars == <<hook, handled>>
vars == <<engineVars, rateVars, ingressVars, retentionVars, apiVars, sseVars>>

---------------------------------------------------------------------------
(* Bounds of the model *)

\* the longest rule list (of catalog rows) handed to setCustomRules
MaxListLen == 2

\* the clock advances in steps of TickMs, MaxTicks times at most
TickMs == 30000
MaxTicks == 3

\* at most MaxWindowCalls calls are made with one key in one window
MaxWindowCalls == 6

\* at most MaxInflight downstream handlers run at the same time
MaxInflight == 2

\* the retention clock advances by whole days, MaxDays times at most
MaxDays == 2

\* anonymizeOldIPs updates one row MaxPasses times at most
MaxPasses == 2

\* the API writes stored records MaxWrites times at most
MaxWrites == 2

\* at most MaxEvents events are handed to the subscribers of the hook
MaxEvents == 2

---------------------------------------------------------------------------
(* Small helpers *)

Min(a, b) == IF a <= b THEN a ELSE b

Range(s) == {s[i] : i \in 1..Len(s)}

RECURSIVE Flatten(_)
Flatten(ss) == IF ss = <<>> THEN <<>> ELSE Head(ss) \o Flatten(Tail(ss))

\* all sequences of at most n distinct elements of S
RECURSIVE DistinctSeqs(_, _)
DistinctSeqs(S, n) ==
    IF n = 0 THEN {<<>>}
    ELSE LET shorter == DistinctSeqs(S, n - 1)
             longer  == {Append(s, x) : s \in shorter, x \in S}
         IN  shorter \cup {s \in longer : Cardinality(Range(s)) = Len(s)}

---------------------------------------------------------------------------
(* Rules *)

\* score: { type: DataTypes.INTEGER, defaultValue: 10 }
DefaultRuleScore == 10

\* a rule row of the waf_rules table; tenantId "NULL" is a global rule
Rule(id, tenantId, kind, tok, targetField, severity, enabled) ==
    [id |-> id, tenantId |-> tenantId,
     pattern |-> [kind |-> kind, tok |-> tok],
     targetField |-> targetField, severity |-> severity,
     category |-> "custom", score |-> DefaultRuleScore, enabled |-> enabled]

\* the rules with their declared score replaced
WithScore(rules, score) == [i \in 1..Len(rules) |-> [rules[i] EXCEPT !.score = score]]

\* the rows of the waf_rules table, in table order
WafRuleTable ==
    << Rule("g-crit", "NULL", "literal", "evil", "path",    "critical", TRUE),
       Rule("g-off",  "NULL", "literal", "evil", "path",    "critical", FALSE),
       Rule("a-low",  "tA",   "literal", "bot",  "headers", "low",      TRUE),
       Rule("b-crit", "tB",   "literal", "evil", "request", "critical", TRUE),
       Rule("b-off",  "tB",   "literal", "home", "path",    "high",     FALSE) >>

\* five enabled critical rules that fire on the same content
ManyCritical ==
    [i \in 1..5 |->
        Rule(<<"crit1", "crit2", "crit3", "crit4", "crit5">>[i],
             "NULL", "literal", "evil", "path", "critical", TRUE)]

\* the four baseline patterns, as analyzeRequest rebuilds them on every call
defaultPatterns ==
    << [id |-> "sql-injection",  pattern |-> [kind |-> "sql", tok |-> ""],
        field |-> "query", severity |-> "high",   score |-> 80],
       [id |-> "xss-basic",      pattern |-> [kind |-> "xss", tok |-> ""],
        field |-> "body",  severity |-> "high",   score |-> 70],
       [id |-> "path-traversal", pattern |-> [kind |-> "traversal", tok |-> ""],
        field |-> "path",  severity |-> "medium", score |-> 50],
       [id |-> "cmd-injection",  pattern |-> [kind |-> "cmd", tok |-> ""],
        field |-> "query", severity |-> "high",   score |-> 75] >>

BaselineIds == {defaultPatterns[i].id : i \in 1..Len(defaultPatterns)}

\* a variant that falls back on the baseline rules only when there are no
\* custom rules
allRulesCustomOnly(custom) ==
    IF custom = <<>>
    THEN [i \in 1..Len(defaultPatterns) |->
             [id |-> defaultPatterns[i].id, tenantId |-> "NULL",
              pattern |-> defaultPatterns[i].pattern,
              targetField |-> defaultPatterns[i].field,
              severity |-> defaultPatterns[i].severity,
              category |-> "owasp", enabled |-> TRUE]]
    ELSE custom

\* const allRules = [...defaultPatterns.map(...), ...this.customRules]
allRules(custom) ==
    [i \in 1..Len(defaultPatterns) |->
        [id |-> defaultPatterns[i].id, tenantId |-> "NULL",
         pattern |-> defaultPatterns[i].pattern,
         targetField |-> defaultPatterns[i].field,
         severity |-> defaultPatterns[i].severity,
         category |-> "owasp", enabled |-> TRUE]] \o custom

\* an enabled rule whose pattern is not a regular expression, such as "("
BrokenRule == Rule("g-bad", "NULL", "invalid", "(", "path", "high", TRUE)

\* rule lists that hold the broken rule: alone, before and after a rule that
\* compiles
BrokenRuleLists ==
    {<<BrokenRule>>, <<BrokenRule, WafRuleTable[1]>>, <<WafRuleTable[1], BrokenRule>>}

\* rules whose declared score disagrees with their severity, one of them with
\* a severity outside the four names
LowDeclaredHigh ==
    [Rule("s-low", "NULL", "literal", "evil", "path", "low", TRUE) EXCEPT !.score = 100]
InfoDeclaredHigh ==
    [Rule("s-info", "NULL", "literal", "evil", "path", "info", TRUE) EXCEPT !.score = 90]
CriticalDeclaredZero ==
    [Rule("s-crit", "NULL", "literal", "bot", "headers", "critical", TRUE) EXCEPT !.score = 0]

ScoredRuleLists ==
    {<<LowDeclaredHigh>>, <<LowDeclaredHigh, InfoDeclaredHigh>>,
     <<CriticalDeclaredZero>>, <<InfoDeclaredHigh, CriticalDeclaredZero>>}

\* rules on the target field "user-agent", which the rule form offers and the
\* engine's content map does not hold; a rule on the query that looks for a
\* brace; rules on the path
UserAgentBot == Rule("f-ua", "NULL", "literal", "bot", "user-agent", "high", TRUE)
UserAgentAny == Rule("f-ua-any", "NULL", "empty", "", "user-agent", "low", TRUE)
QueryBrace == Rule("f-brace", "NULL", "literal", "{", "query", "medium", TRUE)
PathHome == Rule("f-home", "NULL", "literal", "home", "path", "low", TRUE)
PathAny == Rule("f-path-any", "NULL", "empty", "", "path", "low", TRUE)

FieldRuleLists ==
    {<<UserAgentBot, UserAgentAny>>, <<QueryBrace>>, <<PathHome, PathAny>>}

\* the rule lists handed to setCustomRules: every list of at most MaxListLen
\* distinct rows of the table, the five critical rules, the lists with the
\* broken rule, the lists with declared scores and the lists by target field
RuleLists ==
    DistinctSeqs(Range(WafRuleTable), MaxListLen) \cup {ManyCritical}
        \cup BrokenRuleLists \cup ScoredRuleLists \cup FieldRuleLists

---------------------------------------------------------------------------
(* Requests *)

\* a request description: path is a string; query and body are absent
\* (<<>>) or hold tokens; headers are <<name, value>> pairs in insertion order
Req(method, path, query, body, headers) ==
    [method |-> method, path |-> path, query |-> query, body |-> body,
     headers |-> headers]

ReqBenign ==
    Req("GET", <<"/", "home">>, <<>>, <<>>, << <<"user-agent", "curl">> >>)
ReqTraversal ==
    Req("GET", <<"/", "..", "/", "..", "/", "etc", "/", "passwd">>, <<>>, <<>>,
        << <<"user-agent", "curl">> >>)
ReqSqli ==
    Req("GET", <<"/", "item">>,
        <<"id", "1", "UNION", "select", "password", "FROM", "users">>, <<>>,
        << <<"user-agent", "curl">> >>)
ReqXssCmd ==
    Req("POST", <<"/", "post">>, <<"a", ";", "b">>,
        <<"<script>", "x", "</script>">>, << <<"user-agent", "curl">> >>)
ReqEvil ==
    Req("GET", <<"/", "EVIL">>, <<>>, <<>>,
        << <<"user-agent", "bot">>, <<"cookie", "sid">> >>)
\* the same request with another session cookie
ReqEvilOtherCookie ==
    Req("GET", <<"/", "EVIL">>, <<>>, <<>>,
        << <<"user-agent", "bot">>, <<"cookie", "sid2">> >>)
ReqEvilBody ==
    Req("POST", <<"/", "home">>, <<>>, <<"evil">>,
        << <<"user-agent", "bot">> >>)
ReqAll ==
    Req("POST", <<"/", "..", "BACKSLASH", "evil">>,
        <<"DROP", "x", "TABLE", "|">>, <<"<SCRIPT>", "</script>">>,
        << <<"user-agent", "bot">> >>)

\* a request whose header map spells the names as an upstream sent them
ReqCased ==
    Req("GET", <<"/", "home">>, <<>>, <<>>,
        << <<"user-agent", "curl">>, <<"Cookie", "sid">>,
           <<"Authorization", "Bearer">> >>)

\* a request description that carries no path, query, body or headers
ReqBare == Req("GET", <<>>, <<>>, <<>>, <<>>)

Requests ==
    {ReqBenign, ReqTraversal, ReqSqli, ReqXssCmd, ReqEvil, ReqEvilBody, ReqAll}

---------------------------------------------------------------------------
(* Content extractor *)

\* JSON.stringify(v || {}) of an object or of an absent value
StringifyObject(toks) == <<"{">> \o toks \o <<"}">>

\* JSON.stringify(request.body || {}): a non-empty string body is quoted
StringifyBody(body) ==
    IF body = <<>> THEN StringifyObject(<<>>) ELSE <<"QUOTE">> \o body \o <<"QUOTE">>

\* JSON.stringify(request.headers || {})
StringifyHeaders(headers) == StringifyObject(Flatten(headers))

\* JSON.stringify(request): every property the request carries
StringifyRequest(request) ==
    StringifyObject(<<request.method>> \o request.path
                    \o (IF request.query = <<>> THEN <<>>
                        ELSE StringifyObject(request.query))
                    \o (IF request.body = <<>> THEN <<>>
                        ELSE <<"QUOTE">> \o request.body \o <<"QUOTE">>)
                    \o StringifyHeaders(request.headers))

searchableContent(request) ==
    [path    |-> request.path,
     query   |-> StringifyObject(request.query),
     body    |-> StringifyBody(request.body),
     headers |-> StringifyHeaders(request.headers),
     request |-> StringifyRequest(request)]

\* a variant that tests a rule on an unknown field against the whole request
targetContentWholeRequest(rule, request) ==
    IF rule.targetField \in DOMAIN searchableContent(request)
    THEN searchableContent(request)[rule.targetField]
    ELSE searchableContent(request).request

\* searchableContent[rule.targetField] || ''
targetContent(rule, request) ==
    IF rule.targetField \in DOMAIN searchableContent(request)
    THEN searchableContent(request)[rule.targetField]
    ELSE <<>>

\* targetContent.substring(0, 100)
ExcerptLen == 100
Excerpt(content) == SubSeq(content, 1, Min(ExcerptLen, Len(content)))

---------------------------------------------------------------------------
(* Rule matcher *)

\* the 'i' flag: letters compare without case
Fold(tok) ==
    CASE tok = "select"   -> "SELECT"
      [] tok = "<script>" -> "<SCRIPT>"
      [] tok = "</script>" -> "</SCRIPT>"
      [] tok = "evil"     -> "EVIL"
      [] OTHER            -> tok

SqlVerbs == {"SELECT", "INSERT", "UPDATE", "DELETE", "DROP", "UNION", "ALTER"}
SqlObjects == {"FROM", "INTO", "WHERE", "TABLE"}
CmdMeta == {";", "|", "&", "BACKTICK", "$("}

\* new RegExp(rule.pattern, 'i') throws a SyntaxError on a malformed pattern
Compiles(pattern) == pattern.kind # "invalid"

\* regex.test(targetContent)
RegexTest(pattern, content) ==
    CASE pattern.kind = "sql" ->
            \E i, j \in 1..Len(content) :
                i < j /\ Fold(content[i]) \in SqlVerbs /\ Fold(content[j]) \in SqlObjects
      [] pattern.kind = "xss" ->
            \E i, j \in 1..Len(content) :
                i < j /\ Fold(content[i]) = "<SCRIPT>" /\ Fold(content[j]) = "</SCRIPT>"
      [] pattern.kind = "traversal" ->
            \E i \in 1..Len(content) :
                content[i] = ".." /\ i < Len(content) /\ content[i + 1] \in {"/", "BACKSLASH"}
      [] pattern.kind = "cmd" ->
            \E i \in 1..Len(content) : content[i] \in CmdMeta
      [] pattern.kind = "literal" ->
            \E i \in 1..Len(content) : Fold(content[i]) = Fold(pattern.tok)
      [] pattern.kind = "empty" -> TRUE
      [] OTHER -> FALSE

---------------------------------------------------------------------------
(* Scoring and decision *)

\* a variant with the weights of high and medium exchanged
severityScoreExchanged(severity) ==
    IF severity = "critical" THEN 100
    ELSE IF severity = "high" THEN 50
    ELSE IF severity = "medium" THEN 75
    ELSE 25

\* rule.severity === 'critical' ? 100 : ... 'high' ? 75 : ... 'medium' ? 50 : 25
severityScore(severity) ==
    IF severity = "critical" THEN 100
    ELSE IF severity = "high" THEN 75
    ELSE IF severity = "medium" THEN 50
    ELSE 25

\* a variant that adds the rule's declared score where it has one
ContributionDeclared(rule) ==
    IF "score" \in DOMAIN rule THEN rule.score ELSE severityScore(rule.severity)

\* totalScore += severityScore
Contribution(rule) == severityScore(rule.severity)

\* a variant of the loop that stops at the first rule that fires
RECURSIVE MatchLoopFirstMatch(_, _, _)
MatchLoopFirstMatch(rules, request, acc) ==
    IF rules = <<>> \/ acc.threw THEN acc
    ELSE LET rule == Head(rules)
             content == targetContent(rule, request)
         IN  IF ~rule.enabled THEN MatchLoopFirstMatch(Tail(rules), request, acc)
             ELSE IF ~Compiles(rule.pattern)
                  THEN [acc EXCEPT !.threw = TRUE]
             ELSE IF RegexTest(rule.pattern, content)
                  THEN [acc EXCEPT
                           !.matches = Append(@,
                               [ruleId |-> rule.id, field |-> rule.targetField,
                                value |-> Excerpt(content),
                                severity |-> rule.severity]),
                           !.totalScore = @ + Contribution(rule)]
             ELSE MatchLoopFirstMatch(Tail(rules), request, acc)

\* the for loop of analyzeRequest over allRules, left to right; a rule whose
\* pattern does not compile throws out of the loop
RECURSIVE MatchLoop(_, _, _)
MatchLoop(rules, request, acc) ==
    IF rules = <<>> \/ acc.threw THEN acc
    ELSE LET rule == Head(rules)
             content == targetContent(rule, request)
         IN  IF ~rule.enabled THEN MatchLoop(Tail(rules), request, acc)
             ELSE IF ~Compiles(rule.pattern)
                  THEN [acc EXCEPT !.threw = TRUE]
             ELSE IF RegexTest(rule.pattern, content)
                  THEN MatchLoop(Tail(rules), request,
                           [acc EXCEPT
                               !.matches = Append(@,
                                   [ruleId |-> rule.id, field |-> rule.targetField,
                                    value |-> Excerpt(content),
                                    severity |-> rule.severity]),
                               !.totalScore = @ + Contribution(rule)])
             ELSE MatchLoop(Tail(rules), request, acc)

\* a variant that forgets the clamp
ClampScoreUnbounded(totalScore) == totalScore

\* totalScore = Math.min(100, totalScore)
ClampScore(totalScore) == Min(100, totalScore)

\* a variant that compares with > where the code compares with >=
DecideStrict(totalScore, th) ==
    IF totalScore > th.blockThreshold THEN <<"block", "block">>
    ELSE IF totalScore > th.challengeThreshold THEN <<"challenge", "challenge">>
    ELSE IF totalScore > th.monitorThreshold THEN <<"allow", "monitoring">>
    ELSE <<"allow", "passed">>

\* a variant whose block test is the wrong way round
DecideInverted(totalScore, th) ==
    IF totalScore <= th.blockThreshold THEN <<"block", "block">>
    ELSE IF totalScore >= th.challengeThreshold THEN <<"challenge", "challenge">>
    ELSE IF totalScore >= th.monitorThreshold THEN <<"allow", "monitoring">>
    ELSE <<"allow", "passed">>

\* the if / else-if chain on the three thresholds: <<action, reason>>
Decide(totalScore, th) ==
    IF totalScore >= th.blockThreshold THEN <<"block", "block">>
    ELSE IF totalScore >= th.challengeThreshold THEN <<"challenge", "challenge">>
    ELSE IF totalScore >= th.monitorThreshold THEN <<"allow", "monitoring">>
    ELSE <<"allow", "passed">>

Th(b, c, m) == [blockThreshold |-> b, challengeThreshold |-> c, monitorThreshold |-> m]

\* the fallback thresholds of the routes
DefaultThresholds == Th(70, 50, 30)

\* threshold values on both sides of every reachable score 0, 25, 50, 75, 100
ThresholdValues == {0, 30, 50, 70, 100, 101}

AllThresholds ==
    {Th(b, c, m) : b \in ThresholdValues, c \in ThresholdValues, m \in ThresholdValues}

EngineThresholds == {DefaultThresholds, Th(30, 50, 70), Th(101, 101, 0), Th(0, 0, 0)}

NoPrev == [kind |-> "none", score |-> 0, action |-> "allow"]

NoResult ==
    [kind |-> "none", action |-> "allow", score |-> 0, matches |-> <<>>,
     reason |-> "none"]

\* WafEngine.analyzeRequest on an engine whose customRules field is custom
analyzeRequest(custom, request, th) ==
    LET loop == MatchLoop(allRules(custom), request,
                          [matches |-> <<>>, totalScore |-> 0, threw |-> FALSE])
        totalScore == ClampScore(loop.totalScore)
        decision == Decide(totalScore, th)
    IN  IF loop.threw
        THEN [NoResult EXCEPT !.kind = "threw"]
        ELSE [kind |-> "result", action |-> decision[1], score |-> totalScore,
              matches |-> loop.matches, reason |-> decision[2]]

\* a variant with an assignment in the filter: rules.filter(r => r.enabled = true)
FilterEnabledAssign(rules) == [i \in 1..Len(rules) |-> [rules[i] EXCEPT !.enabled = TRUE]]

\* this.customRules = rules.filter(r => r.enabled)
FilterEnabled(rules) == SelectSeq(rules, LAMBDA r : r.enabled)

---------------------------------------------------------------------------
(* The rate limiter *)

\* app.post("/api/login", rateLimit(60000, 5), ...)
LoginWindowMs == 60000
LoginMaxRequests == 5

\* `${req.ip}-${req.path}` for two callers of the login route
RateKeys == {"ip1-/api/login", "ip2-/api/login"}

\* rateLimitStore.get(key) of a key the map does not hold
NoRecord == [present |-> FALSE, count |-> 0, resetTime |-> 0]

\* record && record.resetTime > now
WindowOpen(record, t) == record.present /\ record.resetTime > t

\* a variant that lets one call more through
LimitReachedOffByOne(record, max) == record.count > max

\* record.count >= maxRequests
LimitReached(record, max) == record.count >= max

\* a variant that forgets the increment
IncrementLost(record) == record

\* record.count++
Increment(record) == [record EXCEPT !.count = @ + 1]

\* a variant of the cleanup loop that deletes every entry
SweepAll(store, t) == [k \in DOMAIN store |-> NoRecord]

\* the cleanup loop: delete every entry whose resetTime < now
Sweep(store, t) ==
    [k \in DOMAIN store |->
        IF store[k].present /\ store[k].resetTime < t THEN NoRecord ELSE store[k]]

\* a variant that restarts the window of a call it denies
rateLimitExtending(store, key, t, sweep, max, windowMs) ==
    IF WindowOpen(store[key], t) /\ LimitReached(store[key], max)
    THEN [status |-> "429",
          store |-> [store EXCEPT ![key].resetTime = t + windowMs]]
    ELSE [status |-> "next",
          store |-> IF WindowOpen(store[key], t)
                    THEN [store EXCEPT ![key] = Increment(@)]
                    ELSE [store EXCEPT ![key] =
                             [present |-> TRUE, count |-> 1, resetTime |-> t + windowMs]]]

\* one run of the middleware rateLimit(windowMs, max) returns: it is
\* synchronous, so it runs to its end before any other call starts.  sweep is
\* the outcome of Math.random() < 0.01
rateLimit(store, key, t, sweep, max, windowMs) ==
    LET record == store[key]
        counted ==
            IF WindowOpen(record, t)
            THEN [store EXCEPT ![key] = Increment(record)]
            ELSE [store EXCEPT ![key] =
                     [present |-> TRUE, count |-> 1, resetTime |-> t + windowMs]]
    IN  IF WindowOpen(record, t) /\ LimitReached(record, max)
        THEN [status |-> "429", store |-> store]
        ELSE [status |-> "next",
              store |-> IF sweep THEN Sweep(counted, t) ELSE counted]

NoWindow == [calls |-> 0, passed |-> 0, start |-> 0]
NoCall == [key |-> "none", status |-> "none"]

RateIdle(max) ==
    /\ now = 0
    /\ rateLimitStore = [k \in RateKeys |-> NoRecord]
    /\ unswept = [k \in RateKeys |-> NoRecord]
    /\ maxRequests = max
    /\ inflight = 0
    /\ win = [k \in RateKeys |-> NoWindow]
    /\ lastCall = NoCall

\* the window of key as its caller sees it after a call at time t: a call
\* made when no window was started, or when the window has elapsed, starts one
WindowSeenAfter(w, t, status) ==
    LET passedNow == IF status = "next" THEN 1 ELSE 0
    IN  IF w.calls = 0 \/ t >= w.start + LoginWindowMs
        THEN [calls |-> 1, passed |-> passedNow, start |-> t]
        ELSE [calls |-> w.calls + 1, passed |-> w.passed + passedNow, start |-> w.start]

\* a call of the limited route by the caller of key: the middleware, and
\* next() starting the downstream handler when the call is passed on
RateLimitedCall(key, sweep) ==
    LET r == rateLimit(rateLimitStore, key, now, sweep, maxRequests, LoginWindowMs)
        seen == WindowSeenAfter(win[key], now, r.status)
    IN  /\ seen.calls <= MaxWindowCalls
        /\ r.status = "next" => inflight < MaxInflight
        /\ rateLimitStore' = r.store
        /\ unswept' = rateLimit(unswept, key, now, FALSE, maxRequests, LoginWindowMs).store
        /\ inflight' = IF r.status = "next" THEN inflight + 1 ELSE inflight
        /\ win' = [win EXCEPT ![key] = seen]
        /\ lastCall' = [key |-> key, status |-> r.status]
        /\ UNCHANGED <<now, maxRequests>>
        /\ UNCHANGED engineVars
        /\ UNCHANGED <<ingressVars, retentionVars, apiVars, sseVars>>

\* a downstream handler finishes
HandlerDone ==
    /\ inflight > 0
    /\ inflight' = inflight - 1
    /\ UNCHANGED <<now, rateLimitStore, maxRequests, win, lastCall, unswept>>
    /\ UNCHANGED engineVars
    /\ UNCHANGED <<ingressVars, retentionVars, apiVars, sseVars>>

\* time passes
Tick ==
    /\ now < MaxTicks * TickMs
    /\ now' = now + TickMs
    /\ UNCHANGED <<rateLimitStore, maxRequests, inflight, win, lastCall, unswept>>
    /\ UNCHANGED engineVars
    /\ UNCHANGED <<ingressVars, retentionVars, apiVars, sseVars>>

---------------------------------------------------------------------------
(* Storage and the SSE server, as the routes use them *)

\* rows of the tenants table
TenantTable ==
    [tA   |-> [found |-> TRUE, isActive |-> TRUE,
               scrubCookies |-> TRUE, scrubAuthHeaders |-> TRUE],
     tB   |-> [found |-> TRUE, isActive |-> TRUE,
               scrubCookies |-> FALSE, scrubAuthHeaders |-> FALSE],
     tOff |-> [found |-> TRUE, isActive |-> FALSE,
               scrubCookies |-> TRUE, scrubAuthHeaders |-> TRUE]]

\* what getTenant resolves to when no row has the id
NoTenant ==
    [found |-> FALSE, isActive |-> FALSE,
     scrubCookies |-> FALSE, scrubAuthHeaders |-> FALSE]

\* storage.getTenant(id)
getTenant(id) == IF id \in DOMAIN TenantTable THEN TenantTable[id] ELSE NoTenant

\* rows of the policies table: tenant tA has a policy, tenant tB has none
PolicyTable == [tA |-> Th(100, 60, 40)]

\* a variant that ignores the policy record
thresholdsOfDefaultsOnly(tenantId) == DefaultThresholds

\* storage.getPolicyByTenant(id), with the ?? fallbacks of the routes
thresholdsOf(tenantId) ==
    IF tenantId \in DOMAIN PolicyTable THEN PolicyTable[tenantId] ELSE DefaultThresholds

\* a variant that forgets the tenant in the where clause
getRulesByTenantUnscoped(tenantId) == WafRuleTable

\* storage.getRulesByTenant(tenantId); "NULL" asks for the global rules
getRulesByTenant(tenantId) == SelectSeq(WafRuleTable, LAMBDA r : r.tenantId = tenantId)

\* scrubHeaders(headers, scrubCookies, scrubAuthHeaders): a copy without the
\* deleted keys
scrubHeaders(headers, scrubCookies, scrubAuthHeaders) ==
    SelectSeq(headers, LAMBDA h :
        /\ scrubCookies => h[1] \notin {"cookie", "set-cookie"}
        /\ scrubAuthHeaders =>
               h[1] \notin {"authorization", "x-api-key", "x-auth-token", "x-access-token"})

\* let headersToStore = ...; if (scrubCookies || scrubAuthHeaders) scrubHeaders(...)
headersToStore(request, tenant) ==
    IF tenant.scrubCookies \/ tenant.scrubAuthHeaders
    THEN scrubHeaders(request.headers, tenant.scrubCookies, tenant.scrubAuthHeaders)
    ELSE request.headers

\* analysis.action === "block" ? 403 : analysis.action === "challenge" ? 429 : 200
responseCodeOf(action) ==
    IF action = "block" THEN 403 ELSE IF action = "challenge" THEN 429 ELSE 200

\* a variant that stores the action as the engine names it
storedActionAsReturned(action) == action

\* analysis.action === "block" ? "deny" : analysis.action
storedAction(action) == IF action = "block" THEN "deny" ELSE action

\* a variant of the tenant check that forgets isActive
TenantUsableIgnoringActive(tenant) == tenant.found

\* the ingestion route goes on when !(!tenant || !tenant.isActive)
TenantUsable(tenant) == tenant.found /\ tenant.isActive

\* the fixed score from which the ingestion route raises an alert
AlertScore == 70

\* a variant that raises the alert from the tenant's block threshold on
AlertDueByBlockThreshold(analysis, th) == analysis.score >= th.blockThreshold

\* if (analysis.score >= 70)
AlertDue(analysis, th) == analysis.score >= AlertScore

\* sseServer.broadcastRequest / broadcastAlert: the event is handed to the hub
Broadcast(log, type, c, tenantId) ==
    Append(log, [type |-> type, call |-> c, tenantId |-> tenantId])

\* what a subscriber of tenantId that stays connected receives: the events
\* broadcast for its tenant, in the order they were broadcast
StreamOf(log, tenantId) == SelectSeq(log, LAMBDA e : e.tenantId = tenantId)

CallIds == {"c1", "c2"}

NoResponse == [status |-> 0, action |-> "none", score |-> 0, matchCount |-> 0]

IdleCall ==
    [kind |-> "none", pc |-> "idle", tenantId |-> "", request |-> ReqBenign,
     tenant |-> NoTenant, th |-> DefaultThresholds,
     tenantRules |-> <<>>, globalRules |-> <<>>, rulesEvaluated |-> <<>>,
     analysis |-> NoResult, headersToStore |-> <<>>, responseCode |-> 0,
     failedAt |-> "", response |-> NoResponse]

IngressIdle ==
    /\ calls = [c \in CallIds |-> IdleCall]
    /\ requests = {}
    /\ analyses = {}
    /\ alerts = {}
    /\ events = <<>>

\* res.status(status).json(...) ends the call
Respond(call, status) ==
    [call EXCEPT !.pc = "done", !.response = [NoResponse EXCEPT !.status = status]]

\* the catch block of the routes: a rejected storage call, or an exception of
\* the analysis, ends the call with status 500
Fail500(call) == Respond([call EXCEPT !.failedAt = call.pc], 500)

\* res.json({requestId, action, score, riskLevel, matchCount, processingTimeMs})
\* of the ingestion route and res.json(result) of the analysis-only route
RespondResult(call) ==
    [call EXCEPT !.pc = "done",
                 !.response = [status |-> 200, action |-> call.analysis.action,
                               score |-> call.analysis.score,
                               matchCount |-> Len(call.analysis.matches)]]

IngressTenantIds == {"tA", "tB", "tOff", "tNone", ""}
AnalyzeTenantIds == {"tA", "tB", "tOff", "tNone"}
IngressRequests ==
    {ReqBenign, ReqTraversal, ReqSqli, ReqEvil, ReqEvilOtherCookie, ReqCased}

\* POST /api/waf/ingress arrives: the check of the body, then getTenant is awaited
StartIngress(c, tenantId, request) ==
    /\ calls[c].pc = "idle"
    /\ calls' = [calls EXCEPT ![c] =
           LET call == [IdleCall EXCEPT !.kind = "ingress", !.tenantId = tenantId,
                                        !.request = request]
           IN  IF tenantId = "" THEN Respond(call, 400)
               ELSE [call EXCEPT !.pc = "getTenant"]]
    /\ UNCHANGED <<requests, analyses, alerts, events>>
    /\ UNCHANGED <<engineVars, rateVars, retentionVars, apiVars, sseVars>>

\* POST /api/waf/analyze arrives from an authenticated user
StartAnalyze(c, tenantId, request) ==
    /\ calls[c].pc = "idle"
    /\ calls' = [calls EXCEPT ![c] =
           [IdleCall EXCEPT !.kind = "analyze", !.tenantId = tenantId,
                            !.request = request, !.pc = "getTenant"]]
    /\ UNCHANGED <<requests, analyses, alerts, events>>
    /\ UNCHANGED <<engineVars, rateVars, retentionVars, apiVars, sseVars>>

\* await storage.getTenant(tenantId) settles; ok is whether it resolved
GetTenant(c, ok) ==
    /\ calls[c].pc = "getTenant"
    /\ calls' = [calls EXCEPT ![c] =
           LET call == calls[c]
               tenant == getTenant(call.tenantId)
               usable == IF call.kind = "ingress" THEN TenantUsable(tenant)
                         ELSE tenant.found
           IN  IF ~ok THEN Fail500(call)
               ELSE IF ~usable THEN Respond(call, 404)
               ELSE [call EXCEPT !.tenant = tenant, !.pc = "getPolicy"]]
    /\ UNCHANGED <<requests, analyses, alerts, events>>
    /\ UNCHANGED <<engineVars, rateVars, retentionVars, apiVars, sseVars>>

\* await storage.getPolicyByTenant(tenantId) settles
GetPolicy(c, ok) ==
    /\ calls[c].pc = "getPolicy"
    /\ calls' = [calls EXCEPT ![c] =
           IF ~ok THEN Fail500(calls[c])
           ELSE [calls[c] EXCEPT !.th = thresholdsOf(calls[c].tenantId),
                                 !.pc = "getTenantRules"]]
    /\ UNCHANGED <<requests, analyses, alerts, events>>
    /\ UNCHANGED <<engineVars, rateVars, retentionVars, apiVars, sseVars>>

\* await storage.getRulesByTenant(tenantId) settles
GetTenantRules(c, ok) ==
    /\ calls[c].pc = "getTenantRules"
    /\ calls' = [calls EXCEPT ![c] =
           IF ~ok THEN Fail500(calls[c])
           ELSE [calls[c] EXCEPT !.tenantRules = getRulesByTenant(calls[c].tenantId),
                                 !.pc = "getGlobalRules"]]
    /\ UNCHANGED <<requests, analyses, alerts, events>>
    /\ UNCHANGED <<engineVars, rateVars, retentionVars, apiVars, sseVars>>

\* a variant in which the analysis-only route stores and broadcasts too
StoresAndBroadcastsAlways(call) == TRUE

\* after the analysis the ingestion route goes on to createRequest; the
\* analysis-only route answers with the result
StoresAndBroadcasts(call) == call.kind = "ingress"

\* the rules the loop of analyzeRequest goes through: the enabled ones
EvaluatedBy(custom) ==
    LET enabled == SelectSeq(allRules(custom), LAMBDA r : r.enabled)
    IN  [i \in 1..Len(enabled) |-> [id |-> enabled[i].id, tenantId |-> enabled[i].tenantId]]

\* await storage.getRulesByTenant(null) settles, and the route runs on without
\* a break to its next await: setCustomRules, analyzeRequest, the response
\* code and the scrubbing (ingestion), or the response (analysis-only)
GetGlobalRulesAndAnalyze(c, ok) ==
    /\ calls[c].pc = "getGlobalRules"
    /\ LET call == calls[c]
           globalRules == getRulesByTenant("NULL")
           passed == globalRules \o call.tenantRules
       IN  IF ~ok
           THEN /\ calls' = [calls EXCEPT ![c] = Fail500(call)]
                /\ UNCHANGED engineVars
           ELSE \* wafEngine.setCustomRules([...globalRules, ...customRules])
                /\ customRules' = FilterEnabled(passed)
                /\ lastPassed' = passed
                \* wafEngine.analyzeRequest(...) reads the field just written
                /\ LET analysis == analyzeRequest(customRules', call.request, call.th)
                       analysed == [call EXCEPT !.globalRules = globalRules,
                                                !.rulesEvaluated = EvaluatedBy(customRules'),
                                                !.analysis = analysis]
                   IN  /\ last' = analysis
                       /\ lastRequest' = call.request
                       /\ calls' = [calls EXCEPT ![c] =
                              IF analysis.kind = "threw" THEN Fail500(analysed)
                              ELSE IF ~StoresAndBroadcasts(call) THEN RespondResult(analysed)
                              ELSE [analysed EXCEPT
                                      !.responseCode = responseCodeOf(analysis.action),
                                      !.headersToStore =
                                          headersToStore(call.request, call.tenant),
                                      !.pc = "createRequest"]]
                /\ prev' = [kind |-> last.kind, score |-> last.score, action |-> last.action]
                /\ UNCHANGED thresholds
    /\ UNCHANGED <<requests, analyses, alerts, events>>
    /\ UNCHANGED <<rateVars, retentionVars, apiVars, sseVars>>

\* await storage.createRequest({...}) settles
CreateRequest(c, ok) ==
    /\ calls[c].pc = "createRequest"
    /\ LET call == calls[c]
       IN  IF ~ok
           THEN /\ calls' = [calls EXCEPT ![c] = Fail500(call)]
                /\ UNCHANGED requests
           ELSE /\ requests' = requests \cup
                       {[id |-> c, tenantId |-> call.tenantId,
                         method |-> call.request.method, path |-> call.request.path,
                         responseCode |-> call.responseCode,
                         actionTaken |-> storedAction(call.analysis.action),
                         headersJson |-> call.headersToStore,
                         wafHitsJson |-> call.analysis.matches]}
                /\ calls' = [calls EXCEPT ![c].pc = "createAnalysis"]
    /\ UNCHANGED <<analyses, alerts, events>>
    /\ UNCHANGED <<engineVars, rateVars, retentionVars, apiVars, sseVars>>

\* a variant that broadcasts the request before it awaits createAnalysis
CreateAnalysisBroadcastFirst(c, ok) ==
    /\ calls[c].pc = "createAnalysis"
    /\ LET call == calls[c]
       IN  /\ events' = Broadcast(events, "request", c, call.tenantId)
           /\ IF ~ok
              THEN /\ calls' = [calls EXCEPT ![c] = Fail500(call)]
                   /\ UNCHANGED analyses
              ELSE /\ analyses' = analyses \cup
                          {[requestId |-> c,
                            matchedRulesJson |-> call.analysis.matches,
                            totalScore |-> call.analysis.score,
                            suggestedAction |-> storedAction(call.analysis.action),
                            finalAction |-> storedAction(call.analysis.action)]}
                   /\ calls' = [calls EXCEPT ![c] =
                          IF AlertDue(call.analysis, call.th)
                          THEN [call EXCEPT !.pc = "createAlert"]
                          ELSE RespondResult(call)]
    /\ UNCHANGED <<requests, alerts>>
    /\ UNCHANGED <<engineVars, rateVars, retentionVars, apiVars, sseVars>>

\* await storage.createAnalysis({...}) settles; the route then broadcasts the
\* stored request and, from score 70 on, calls createAlert
CreateAnalysis(c, ok) ==
    /\ calls[c].pc = "createAnalysis"
    /\ LET call == calls[c]
       IN  IF ~ok
           THEN /\ calls' = [calls EXCEPT ![c] = Fail500(call)]
                /\ UNCHANGED <<analyses, events>>
           ELSE /\ analyses' = analyses \cup
                       {[requestId |-> c,
                         matchedRulesJson |-> call.analysis.matches,
                         totalScore |-> call.analysis.score,
                         suggestedAction |-> storedAction(call.analysis.action),
                         finalAction |-> storedAction(call.analysis.action)]}
                /\ events' = Broadcast(events, "request", c, call.tenantId)
                /\ calls' = [calls EXCEPT ![c] =
                       IF AlertDue(call.analysis, call.th)
                       THEN [call EXCEPT !.pc = "createAlert"]
                       ELSE RespondResult(call)]
    /\ UNCHANGED <<requests, alerts>>
    /\ UNCHANGED <<engineVars, rateVars, retentionVars, apiVars, sseVars>>

\* await storage.createAlert({...}) settles; the route then broadcasts the
\* alert and answers
CreateAlert(c, ok) ==
    /\ calls[c].pc = "createAlert"
    /\ LET call == calls[c]
       IN  IF ~ok
           THEN /\ calls' = [calls EXCEPT ![c] = Fail500(call)]
                /\ UNCHANGED <<alerts, events>>
           ELSE /\ alerts' = alerts \cup
                       {[id |-> c, tenantId |-> call.tenantId,
                         score |-> call.analysis.score,
                         matchCount |-> Len(call.analysis.matches)]}
                /\ events' = Broadcast(events, "alert", c, call.tenantId)
                /\ calls' = [calls EXCEPT ![c] = RespondResult(call)]
    /\ UNCHANGED <<requests, analyses>>
    /\ UNCHANGED <<engineVars, rateVars, retentionVars, apiVars, sseVars>>

---------------------------------------------------------------------------
(* Retention and anonymization (server/storage.ts) *)

\* 24 * 60 * 60 * 1000
DayMs == 86400000

\* client IPs, as strings of number and separator tokens
Ipv4Addr == <<"192", ".", "168", ".", "1", ".", "10">>
Ipv4Net == <<"10", ".", "0", ".", "0", ".", "0">>
Ipv6Addr == <<"2001", ":", "db8", ":", ":", "1">>
Ipv6Loopback == <<":", ":", "1">>
Ipv6Mapped == <<":", ":", "ffff", ":", "192", ".", "168", ".", "1", ".", "10">>
Ipv6Prefix == <<"fe80", ":", ":">>
NoIp == <<>>

\* the client IPs the anonymization is computed on
ClientIps == {Ipv4Addr, Ipv4Net, Ipv6Addr, Ipv6Loopback, Ipv6Mapped, Ipv6Prefix}

\* the columns of a requests row that retention and anonymization read
RequestRow(id, tenantId, day, clientIp) ==
    [id |-> id, tenantId |-> tenantId, timestamp |-> day * DayMs, clientIp |-> clientIp]

\* rows that ingestion stored earlier, on day 0 and on day 1
StoredRequestRows ==
    { RequestRow("r1", "tA", 0, Ipv4Addr),
      RequestRow("r2", "tA", 0, Ipv6Addr),
      RequestRow("r3", "tA", 1, Ipv6Mapped),
      RequestRow("r4", "tB", 0, Ipv4Net),
      RequestRow("r5", "tB", 0, NoIp),
      RequestRow("r6", "tB", 1, Ipv6Loopback) }

\* the rows that ingestion calls write while the retention methods run, one
\* for each tenant
NewRows == {RequestRow("n1", "tA", 0, NoIp), RequestRow("n2", "tB", 0, NoIp)}

RowIds == {r.id : r \in StoredRequestRows \cup NewRows}

\* s.includes(ch)
Includes(s, ch) == \E i \in 1..Len(s) : s[i] = ch

\* s.lastIndexOf(ch), counted from 1; 0 when ch does not occur
LastIndexOf(s, ch) ==
    IF Includes(s, ch)
    THEN CHOOSE i \in 1..Len(s) : s[i] = ch /\ \A j \in (i + 1)..Len(s) : s[j] # ch
    ELSE 0

\* a variant of the where clause that forgets the tenant
OldRequestsOfAnyTenant(tenantId, days) ==
    {r \in requests : r.timestamp <= now - days * DayMs}

\* where: { tenantId, timestamp: { [Op.lte]: cutoffDate } }
OldRequests(tenantId, days) ==
    {r \in requests : r.tenantId = tenantId /\ r.timestamp <= now - days * DayMs}

\* a variant that cuts the last segment off and puts nothing in its place
AnonymizeIpCutting(clientIp) ==
    IF Includes(clientIp, ":")
    THEN SubSeq(clientIp, 1, LastIndexOf(clientIp, ":") - 1)
    ELSE IF Includes(clientIp, ".")
    THEN SubSeq(clientIp, 1, LastIndexOf(clientIp, ".") - 1)
    ELSE clientIp

\* the anonIp that anonymizeOldIPs computes from request.clientIp
AnonymizeIp(clientIp) ==
    IF Includes(clientIp, ":")
    THEN SubSeq(clientIp, 1, LastIndexOf(clientIp, ":") - 1) \o <<":", "0">>
    ELSE IF Includes(clientIp, ".")
    THEN SubSeq(clientIp, 1, LastIndexOf(clientIp, ".") - 1) \o <<".", "0">>
    ELSE clientIp

\* the day counts the two methods are called with
DayChoices == {0, 1}

RetentionTenantIds == {"tA", "tB"}

NoJob == [pc |-> "idle", pending |-> {}]

RetentionIdle ==
    /\ job = NoJob
    /\ ipHistory = [id \in RowIds |->
                       [original |-> (CHOOSE r \in StoredRequestRows \cup NewRows :
                                          r.id = id).clientIp,
                        passes |-> 0]]

\* anonymizeOldIPs(tenantId, anonymizeDays) is called and its findAll resolves:
\* the rows found without a client IP are passed over, the others are updated
\* one await at a time
StartAnonymizeOldIPs(tenantId, days) ==
    /\ job.pc = "idle"
    /\ LET found == {r \in OldRequests(tenantId, days) : r.clientIp # NoIp}
       IN  /\ \A r \in found : ipHistory[r.id].passes < MaxPasses
           /\ job' = IF found = {} THEN NoJob ELSE [pc |-> "update", pending |-> found]
    /\ UNCHANGED ipHistory
    /\ UNCHANGED <<engineVars, rateVars, ingressVars, apiVars, sseVars>>

\* await request.update({ clientIp: anonIp }) of one found row settles; anonIp
\* is computed from the row as findAll returned it.  A rejected update ends
\* the run
UpdateClientIp(r, ok) ==
    /\ job.pc = "update"
    /\ r \in job.pending
    /\ IF ~ok
       THEN /\ job' = NoJob
            /\ UNCHANGED <<requests, ipHistory>>
       ELSE /\ requests' = {IF x.id = r.id
                            THEN [x EXCEPT !.clientIp = AnonymizeIp(r.clientIp)]
                            ELSE x : x \in requests}
            /\ ipHistory' = IF \E x \in requests : x.id = r.id
                            THEN [ipHistory EXCEPT ![r.id].passes = @ + 1]
                            ELSE ipHistory
            /\ job' = IF job.pending = {r} THEN NoJob
                      ELSE [job EXCEPT !.pending = @ \ {r}]
    /\ UNCHANGED <<calls, analyses, alerts, events>>
    /\ UNCHANGED <<engineVars, rateVars, apiVars, sseVars>>

\* storage.createRequest of an ingestion call that runs meanwhile: a row with
\* timestamp new Date()
CreateRequestRow(row) ==
    /\ \A r \in requests : r.id # row.id
    /\ requests' = requests \cup {[row EXCEPT !.timestamp = now]}
    /\ UNCHANGED retentionVars
    /\ UNCHANGED <<calls, analyses, alerts, events>>
    /\ UNCHANGED <<engineVars, rateVars, apiVars, sseVars>>

\* deleteOldRequests(tenantId, retentionDays): one destroy
DeleteOldRequests(tenantId, days) ==
    /\ requests' = requests \ OldRequests(tenantId, days)
    /\ UNCHANGED <<calls, analyses, alerts, events>>
    /\ UNCHANGED <<engineVars, rateVars, retentionVars, apiVars, sseVars>>

\* a day passes
DayPasses ==
    /\ now < MaxDays * DayMs
    /\ now' = now + DayMs
    /\ UNCHANGED <<rateLimitStore, maxRequests, inflight, win, lastCall, unswept>>
    /\ UNCHANGED <<engineVars, ingressVars, retentionVars, apiVars, sseVars>>

---------------------------------------------------------------------------
(* The authenticated API (server/routes.ts) and its guards *)

\* the role of the caller's session; "anonymous" is a caller that is not
\* authenticated
Roles == {"anonymous", "viewer", "operator", "admin"}

\* the kinds of stored record the API writes
RecordKinds ==
    {"tenant", "policy", "rule", "alert", "webhook", "user", "override",
     "iplist", "settings"}

\* a route: its guard ("requireAuth" or "requireRole" with the roles
\* admitted) and the kinds of record its handler writes
Route(guard, roles, writes) == [guard |-> guard, roles |-> roles, writes |-> writes]

\* the routes of registerRoutes that write, and two that only read
RouteTable ==
    [ GetTenants       |-> Route("requireAuth", {}, {}),
      GetWebhooks      |-> Route("requireRole", {"admin"}, {}),
      PostTenants      |-> Route("requireRole", {"admin"}, {"tenant", "policy"}),
      PatchTenant      |-> Route("requireRole", {"admin"}, {"tenant", "policy"}),
      DeleteTenant     |-> Route("requireRole", {"admin"}, {"tenant"}),
      PatchPolicy      |-> Route("requireRole", {"admin", "operator"}, {"policy"}),
      PostRules        |-> Route("requireRole", {"admin"}, {"rule"}),
      PatchRule        |-> Route("requireRole", {"admin"}, {"rule"}),
      DeleteRule       |-> Route("requireRole", {"admin"}, {"rule"}),
      PostOverride     |-> Route("requireRole", {"admin", "operator"}, {"override"}),
      PostWhitelistIp  |-> Route("requireRole", {"admin", "operator"}, {"iplist"}),
      PostBlacklistIp  |-> Route("requireRole", {"admin", "operator"}, {"iplist"}),
      PostCreateRule   |-> Route("requireRole", {"admin", "operator"}, {"rule"}),
      PatchAlert       |-> Route("requireAuth", {}, {"alert"}),
      PostMarkAllRead  |-> Route("requireAuth", {}, {"alert"}),
      PostDismissAlert |-> Route("requireAuth", {}, {"alert"}),
      PostWebhooks     |-> Route("requireRole", {"admin"}, {"webhook"}),
      PatchWebhook     |-> Route("requireRole", {"admin"}, {"webhook"}),
      DeleteWebhook    |-> Route("requireRole", {"admin"}, {"webhook"}),
      PatchUser        |-> Route("requireRole", {"admin"}, {"user"}),
      PutSettings      |-> Route("requireRole", {"admin"}, {"settings"}) ]

\* requireAuth: 401 unless req.isAuthenticated(), else next()
requireAuth(role) == IF role = "anonymous" THEN 401 ELSE 200

\* requireRole(...roles): 401 unless authenticated, 403 unless the user's role
\* is one of roles, else next()
requireRole(roles, role) ==
    IF role = "anonymous" THEN 401
    ELSE IF role \notin roles THEN 403
    ELSE 200

\* the status the guard of route answers with; 200 stands for next()
GuardStatus(route, role) ==
    IF route.guard = "requireAuth" THEN requireAuth(role)
    ELSE requireRole(route.roles, role)

RECURSIVE SumOver(_, _)
SumOver(f, S) ==
    IF S = {} THEN 0
    ELSE LET k == CHOOSE k \in S : TRUE IN f[k] + SumOver(f, S \ {k})

NoApiCall == [role |-> "anonymous", route |-> "none", status |-> 0]

ApiIdle ==
    /\ records = [k \in RecordKinds |-> 0]
    /\ lastApi = NoApiCall

\* a caller with the given role calls a route: the guard, then the handler
\* with its storage writes
ApiCall(role, name) ==
    LET route == RouteTable[name]
        status == GuardStatus(route, role)
    IN  /\ lastApi' = [role |-> role, route |-> name, status |-> status]
        /\ IF status = 200
           THEN /\ SumOver(records, RecordKinds) + Cardinality(route.writes) <= MaxWrites
                /\ records' = [k \in RecordKinds |->
                                  IF k \in route.writes THEN records[k] + 1 ELSE records[k]]
           ELSE UNCHANGED records
        /\ UNCHANGED <<engineVars, rateVars, ingressVars, retentionVars, sseVars>>

---------------------------------------------------------------------------
(* The client hook useSSE (client/src/hooks/useSSE.ts) *)

StreamPaths == {"/api/traffic/stream", "/api/alerts/stream"}

EventTypes == {"request", "alert"}

\* the hook after its first render and the first run of its effect: the
\* EventSource is created and is connecting
MountedHook ==
    [mounted |-> TRUE, streamPath |-> "/api/traffic/stream",
     isConnected |-> FALSE, readyState |-> "connecting", ref |-> TRUE,
     handlers |-> {}, lastMessage |-> "none", failed |-> FALSE]

SseIdle ==
    /\ hook = MountedHook
    /\ handled = 0

\* eventSource.onerror: setIsConnected(false); eventSource.close()
OnError(h) ==
    IF h.mounted
    THEN [h EXCEPT !.isConnected = FALSE, !.readyState = "closed", !.failed = TRUE]
    ELSE [h EXCEPT !.readyState = "connecting"]

\* the browser has connected: eventSource.onopen
OnOpen ==
    /\ hook.readyState = "connecting"
    /\ hook' = [hook EXCEPT !.readyState = "open", !.failed = FALSE,
                            !.isConnected = IF hook.mounted THEN TRUE ELSE @]
    /\ UNCHANGED handled
    /\ UNCHANGED <<engineVars, rateVars, ingressVars, retentionVars, apiVars>>

\* the connection fails: the browser fires the error event
ConnectionError ==
    /\ hook.readyState \in {"connecting", "open"}
    /\ hook' = OnError(hook)
    /\ UNCHANGED handled
    /\ UNCHANGED <<engineVars, rateVars, ingressVars, retentionVars, apiVars>>

\* subscribe(type, handler), and the function it returns
Subscribe(type) ==
    /\ hook' = [hook EXCEPT !.handlers = @ \cup {type}]
    /\ UNCHANGED handled
    /\ UNCHANGED <<engineVars, rateVars, ingressVars, retentionVars, apiVars>>

Unsubscribe(type) ==
    /\ type \in hook.handlers
    /\ hook' = [hook EXCEPT !.handlers = @ \ {type}]
    /\ UNCHANGED handled
    /\ UNCHANGED <<engineVars, rateVars, ingressVars, retentionVars, apiVars>>

\* an event of the given type arrives on the open connection: the listener
\* sets lastMessage and calls the handlers subscribed to the type
ServerEvent(type) ==
    /\ hook.readyState = "open"
    /\ hook.mounted
    /\ hook' = [hook EXCEPT !.lastMessage = type]
    /\ IF type \in hook.handlers
       THEN handled < MaxEvents /\ handled' = handled + 1
       ELSE UNCHANGED handled
    /\ UNCHANGED <<engineVars, rateVars, ingressVars, retentionVars, apiVars>>

\* the component renders with another streamPath: the cleanup of the effect
\* closes the EventSource and the effect creates a new one
ChangeStreamPath(path) ==
    /\ hook.mounted
    /\ path # hook.streamPath
    /\ hook' = [hook EXCEPT !.streamPath = path, !.readyState = "connecting",
                            !.ref = TRUE, !.failed = FALSE]
    /\ UNCHANGED handled
    /\ UNCHANGED <<engineVars, rateVars, ingressVars, retentionVars, apiVars>>

\* disconnect()
Disconnect ==
    /\ hook' = [hook EXCEPT !.isConnected = FALSE, !.ref = FALSE, !.failed = FALSE,
                            !.readyState = IF hook.ref THEN "closed" ELSE @]
    /\ UNCHANGED handled
    /\ UNCHANGED <<engineVars, rateVars, ingressVars, retentionVars, apiVars>>

\* the component unmounts: both cleanups run
Unmount ==
    /\ hook.mounted
    /\ hook' = [hook EXCEPT !.mounted = FALSE, !.ref = FALSE, !.failed = FALSE,
                            !.readyState = IF hook.ref THEN "closed" ELSE @]
    /\ UNCHANGED handled
    /\ UNCHANGED <<engineVars, rateVars, ingressVars, retentionVars, apiVars>>

---------------------------------------------------------------------------
(* The engine, called directly *)

InitEngineWith(T) ==
    /\ customRules = <<>>
    /\ lastPassed = <<>>
    /\ thresholds \in T
    /\ last = NoResult
    /\ prev = NoPrev
    /\ lastRequest = ReqBenign
    /\ RateIdle(LoginMaxRequests)
    /\ IngressIdle
    /\ RetentionIdle
    /\ ApiIdle
    /\ SseIdle

SetCustomRules(rules) ==
    /\ customRules' = FilterEnabled(rules)
    /\ lastPassed' = rules
    /\ last' = NoResult
    /\ lastRequest' = ReqBenign
    /\ UNCHANGED <<thresholds, prev>>
    /\ UNCHANGED rateVars
    /\ UNCHANGED <<ingressVars, retentionVars, apiVars, sseVars>>

AnalyzeRequest(request) ==
    /\ last' = analyzeRequest(customRules, request, thresholds)
    /\ lastRequest' = request
    /\ prev' = [kind |-> last.kind, score |-> last.score, action |-> last.action]
    /\ UNCHANGED <<customRules, lastPassed, thresholds>>
    /\ UNCHANGED rateVars
    /\ UNCHANGED <<ingressVars, retentionVars, apiVars, sseVars>>

\* the lists the routes pass for a tenant: [...globalRules, ...customRules]
TenantRuleLists ==
    {getRulesByTenant("NULL") \o getRulesByTenant(t) : t \in {"tA", "tB", "tNone"}}

NextEngine ==
    \/ \E rules \in RuleLists \cup TenantRuleLists : SetCustomRules(rules)
    \/ \E request \in Requests \cup {ReqBare} : AnalyzeRequest(request)

InitEngine == InitEngineWith(EngineThresholds)

SpecEngine == InitEngine /\ [][NextEngine]_vars

\* the rate limiter alone, created with maxRequests 1, 2 or 5
MaxRequestsChoices == {1, 2, LoginMaxRequests}

InitRate ==
    /\ customRules = <<>>
    /\ lastPassed = <<>>
    /\ thresholds = DefaultThresholds
    /\ last = NoResult
    /\ prev = NoPrev
    /\ lastRequest = ReqBenign
    /\ \E max \in MaxRequestsChoices : RateIdle(max)
    /\ IngressIdle
    /\ RetentionIdle
    /\ ApiIdle
    /\ SseIdle

NextRate ==
    \/ \E key \in RateKeys, sweep \in BOOLEAN : RateLimitedCall(key, sweep)
    \/ HandlerDone
    \/ Tick

SpecRate == InitRate /\ [][NextRate]_vars

\* the same engine under every threshold triple, with the short rule lists
DecisionRuleLists == DistinctSeqs(Range(WafRuleTable), 1)

NextDecision ==
    \/ \E rules \in DecisionRuleLists : SetCustomRules(rules)
    \/ \E request \in Requests : AnalyzeRequest(request)

InitDecision == InitEngineWith(AllThresholds)

SpecDecision == InitDecision /\ [][NextDecision]_vars

\* the ingestion and analysis-only routes, two calls at a time
InitIngress ==
    /\ customRules = <<>>
    /\ lastPassed = <<>>
    /\ thresholds = DefaultThresholds
    /\ last = NoResult
    /\ prev = NoPrev
    /\ lastRequest = ReqBenign
    /\ RateIdle(LoginMaxRequests)
    /\ IngressIdle
    /\ RetentionIdle
    /\ ApiIdle
    /\ SseIdle

NextIngress ==
    \/ \E c \in CallIds, t \in IngressTenantIds, r \in IngressRequests : StartIngress(c, t, r)
    \/ \E c \in CallIds, t \in AnalyzeTenantIds, r \in IngressRequests : StartAnalyze(c, t, r)
    \/ \E c \in CallIds, ok \in BOOLEAN : GetTenant(c, ok)
    \/ \E c \in CallIds, ok \in BOOLEAN : GetPolicy(c, ok)
    \/ \E c \in CallIds, ok \in BOOLEAN : GetTenantRules(c, ok)
    \/ \E c \in CallIds, ok \in BOOLEAN : GetGlobalRulesAndAnalyze(c, ok)
    \/ \E c \in CallIds, ok \in BOOLEAN : CreateRequest(c, ok)
    \/ \E c \in CallIds, ok \in BOOLEAN : CreateAnalysis(c, ok)
    \/ \E c \in CallIds, ok \in BOOLEAN : CreateAlert(c, ok)

SpecIngress == InitIngress /\ [][NextIngress]_vars

\* the retention and anonymization methods of storage, over stored rows
InitRetention ==
    /\ customRules = <<>>
    /\ lastPassed = <<>>
    /\ thresholds = DefaultThresholds
    /\ last = NoResult
    /\ prev = NoPrev
    /\ lastRequest = ReqBenign
    /\ RateIdle(LoginMaxRequests)
    /\ calls = [c \in CallIds |-> IdleCall]
    /\ requests = StoredRequestRows
    /\ analyses = {}
    /\ alerts = {}
    /\ events = <<>>
    /\ RetentionIdle
    /\ ApiIdle
    /\ SseIdle

NextRetention ==
    \/ \E t \in RetentionTenantIds, days \in DayChoices : StartAnonymizeOldIPs(t, days)
    \/ \E r \in job.pending, ok \in BOOLEAN : UpdateClientIp(r, ok)
    \/ \E t \in RetentionTenantIds, days \in DayChoices : DeleteOldRequests(t, days)
    \/ DayPasses

SpecRetention == InitRetention /\ [][NextRetention]_vars

\* deleteOldRequests while ingestion goes on writing rows
NextDeletion ==
    \/ \E t \in RetentionTenantIds, days \in DayChoices : DeleteOldRequests(t, days)
    \/ \E row \in NewRows : CreateRequestRow(row)
    \/ DayPasses

SpecDeletion == InitRetention /\ [][NextDeletion]_vars

\* the API, called by callers of every role
NextApi == \E role \in Roles, name \in DOMAIN RouteTable : ApiCall(role, name)

SpecApi == InitIngress /\ [][NextApi]_vars

\* one mounted hook; a browser that keeps trying to connect gets through in
\* the end
NextSSE ==
    \/ OnOpen
    \/ ConnectionError
    \/ \E type \in EventTypes : Subscribe(type)
    \/ \E type \in EventTypes : Unsubscribe(type)
    \/ \E type \in EventTypes : ServerEvent(type)
    \/ \E path \in StreamPaths : ChangeStreamPath(path)
    \/ Disconnect
    \/ Unmount

SpecSSE == InitIngress /\ [][NextSSE]_vars /\ SF_vars(OnOpen)


---------------------------------------------------------------------------
(* Properties of the engine *)

\* C1: the score analyzeRequest returns is in the closed interval [0, 100],
\* however many rules fired
C1_ScoreInRange ==
    last.kind = "result" => last.score >= 0 /\ last.score <= 100

\* five or more critical rules fired in one analysis
C1_Witness ==
    /\ last.kind = "result"
    /\ Cardinality({i \in 1..Len(last.matches) :
                        last.matches[i].severity = "critical"}) >= 5
    /\ last.score = 100

\* C2: block exactly when score >= block threshold, challenge exactly when
\* score < block threshold and score >= challenge threshold, allow otherwise,
\* for any threshold triple; the action is never "monitor", and reaching only
\* the monitor threshold changes the reason and leaves the action allow
C2_DecisionByThresholds ==
    last.kind = "result" =>
        LET s == last.score
            blocks == s >= thresholds.blockThreshold
            challenges == ~blocks /\ s >= thresholds.challengeThreshold
            monitors == ~blocks /\ ~challenges /\ s >= thresholds.monitorThreshold
        IN  /\ (last.action = "block") <=> blocks
            /\ (last.action = "challenge") <=> challenges
            /\ (last.action = "allow") <=> (~blocks /\ ~challenges)
            /\ last.action \in {"allow", "challenge", "block"}
            /\ monitors => last.action = "allow" /\ last.reason = "monitoring"
            /\ (last.reason = "passed") <=> (~blocks /\ ~challenges /\ ~monitors)

\* a score that reaches only the monitor threshold, under thresholds that are
\* not ordered (the challenge threshold above the block threshold)
C2_Witness ==
    /\ last.kind = "result"
    /\ last.reason = "monitoring"
    /\ last.action = "allow"
    /\ last.score > 0
    /\ thresholds.challengeThreshold > thresholds.blockThreshold

ActionRank(action) ==
    CASE action = "allow" -> 0 [] action = "challenge" -> 1 [] action = "block" -> 2
      [] OTHER -> -1

\* C3: with block >= challenge >= monitor, of two analyses the one with the
\* higher score never gets the less restrictive action, and equal scores get
\* the same action
C3_MonotonicDecision ==
    ( /\ thresholds.blockThreshold >= thresholds.challengeThreshold
      /\ thresholds.challengeThreshold >= thresholds.monitorThreshold
      /\ prev.kind = "result" /\ last.kind = "result" ) =>
        /\ prev.score <= last.score => ActionRank(prev.action) <= ActionRank(last.action)
        /\ last.score <= prev.score => ActionRank(last.action) <= ActionRank(prev.action)
        /\ prev.score = last.score => prev.action = last.action

\* two successive analyses under ordered thresholds, the second with the
\* higher score and the more restrictive action
C3_Witness ==
    /\ thresholds.blockThreshold > thresholds.challengeThreshold
    /\ thresholds.challengeThreshold > thresholds.monitorThreshold
    /\ prev.kind = "result" /\ last.kind = "result"
    /\ prev.score < last.score
    /\ prev.action = "challenge" /\ last.action = "block"

RECURSIVE SumSeverity(_)
SumSeverity(matches) ==
    IF matches = <<>> THEN 0
    ELSE severityScore(Head(matches).severity) + SumSeverity(Tail(matches))

\* C4: no match carries the id of a rule that was disabled in the rule list
\* last passed to setCustomRules, and the score is made of the matches alone
C4_DisabledNeverMatches ==
    last.kind = "result" =>
        /\ \A i \in 1..Len(last.matches) : \A j \in 1..Len(lastPassed) :
               lastPassed[j].id = last.matches[i].ruleId => lastPassed[j].enabled
        /\ last.score = Min(100, SumSeverity(last.matches))

\* the list last passed holds the disabled rule g-off, and the analysed path
\* matched g-off's pattern: the enabled rule g-crit, with the same pattern on
\* the same field, fired
C4_Witness ==
    /\ last.kind = "result"
    /\ \E j \in 1..Len(lastPassed) :
           lastPassed[j].id = "g-off" /\ ~lastPassed[j].enabled
    /\ \E i \in 1..Len(last.matches) : last.matches[i].ruleId = "g-crit"

\* the ids of the rules that fired in the latest analysis
FiredIds == {last.matches[i].ruleId : i \in 1..Len(last.matches)}

\* C19: whatever rule list was last passed to setCustomRules, an analysis
\* that returns evaluates each of the four baseline rules: the rule is among
\* the matches exactly when its pattern matches its field of the request
C19_BaselineAlwaysEvaluated ==
    last.kind = "result" =>
        \A i \in 1..Len(defaultPatterns) :
            LET baseline == defaultPatterns[i]
                content == searchableContent(lastRequest)[baseline.field]
            IN  (baseline.id \in FiredIds) <=> RegexTest(baseline.pattern, content)

\* all four baseline rules fired in an analysis made after a non-empty list
\* of disabled rules only was passed to setCustomRules
C19_Witness ==
    /\ last.kind = "result"
    /\ lastPassed # <<>> /\ customRules = <<>>
    /\ BaselineIds \subseteq FiredIds

\* C20: under thresholds block 70, challenge 50, monitor 30, a request on
\* which the path-traversal rule alone fires has score 50 and action
\* challenge, and one on which the SQL-injection rule alone fires has score 75
\* and action block
C20_SingleBaselineDecision ==
    (last.kind = "result" /\ thresholds = Th(70, 50, 30)) =>
        /\ FiredIds = {"path-traversal"} =>
               last.score = 50 /\ last.action = "challenge"
        /\ FiredIds = {"sql-injection"} =>
               last.score = 75 /\ last.action = "block"

\* under those thresholds the path /../../etc/passwd was analysed with score
\* 50 and action challenge, and then the query id=1 UNION select password FROM
\* users, on which the SQL-injection rule alone fired
C20_Witness ==
    /\ thresholds = Th(70, 50, 30)
    /\ prev.kind = "result" /\ prev.score = 50 /\ prev.action = "challenge"
    /\ last.kind = "result" /\ lastRequest = ReqSqli
    /\ FiredIds = {"sql-injection"}
    /\ last.score = 75 /\ last.action = "block"

\* the point value of a severity, as the claim states it
SeverityPoints(severity) ==
    CASE severity = "critical" -> 100
      [] severity = "high" -> 75
      [] severity = "medium" -> 50
      [] severity = "low" -> 25
      [] OTHER -> 25

RECURSIVE SumPoints(_)
SumPoints(matches) ==
    IF matches = <<>> THEN 0
    ELSE SeverityPoints(Head(matches).severity) + SumPoints(Tail(matches))

\* declared scores a rule row may carry
DeclaredScores == {0, DefaultRuleScore, 100}

\* C23: the score is min(100, sum over the fired rules of the point value of
\* their severity), and the analysis of the same request with the same rules
\* carrying any other declared score returns the same score, action and
\* matches
C23_SeverityAloneScores ==
    last.kind = "result" =>
        /\ last.score = Min(100, SumPoints(last.matches))
        /\ \A declared \in DeclaredScores :
               analyzeRequest(WithScore(customRules, declared), lastRequest, thresholds) = last

\* a rule of severity low with declared score 100 and a rule of severity info
\* with declared score 90 fired alone: the score is 50
C23_Witness ==
    /\ last.kind = "result"
    /\ customRules = <<LowDeclaredHigh, InfoDeclaredHigh>>
    /\ FiredIds = {"s-low", "s-info"}
    /\ last.score = 50

\* the orderings of a list of distinct rules
Orderings(rules) ==
    {p \in [1..Len(rules) -> Range(rules)] : Range(p) = Range(rules)}

\* the ids of a sequence of rules or of matches
IdsOf(rules) == [i \in 1..Len(rules) |-> rules[i].id]
MatchIdsOf(matches) == [i \in 1..Len(matches) |-> matches[i].ruleId]

\* C24: analysing the same request under the same thresholds with any
\* ordering of the rule list last passed gives the same score and the same
\* action and the same matches in another order: the baseline rules first,
\* then the custom rules in the order of the list
C24_OrderIndependent ==
    last.kind = "result" =>
        /\ MatchIdsOf(last.matches) =
               SelectSeq(IdsOf(allRules(customRules)), LAMBDA id : id \in FiredIds)
        /\ \A p \in Orderings(lastPassed) :
               LET other == analyzeRequest(FilterEnabled(p), lastRequest, thresholds)
               IN  /\ other.kind = "result"
                   /\ other.score = last.score
                   /\ other.action = last.action
                   /\ Range(other.matches) = Range(last.matches)
                   /\ MatchIdsOf(other.matches) =
                          SelectSeq(IdsOf(allRules(FilterEnabled(p))),
                                    LAMBDA id : id \in FiredIds)

\* a rule of severity low was passed before a critical rule, both fired and
\* no baseline rule did, under thresholds that separate the scores 25 and 100
C24_Witness ==
    /\ last.kind = "result"
    /\ Len(lastPassed) = 2
    /\ MatchIdsOf(last.matches) = <<"a-low", "g-crit">>
    /\ thresholds = Th(70, 50, 30)
    /\ last.action = "block"

\* the target fields the engine's content map holds
RecognisedFields == {"path", "query", "body", "headers", "request"}

\* the request carries no value for the field
FieldAbsent(request, field) ==
    field \in {"path", "query", "body", "headers"} /\ request[field] = <<>>

\* the enabled rules of the latest analysis, baseline rules included
EnabledRules ==
    {r \in Range(allRules(customRules)) : r.enabled}

C12_BadPatternSkipped ==
    ( /\ last.kind # "none"
      /\ \E i \in 1..Len(customRules) : ~Compiles(customRules[i].pattern) ) =>
        /\ last.kind = "result"
        /\ last.score = Min(100, SumSeverity(last.matches))

---------------------------------------------------------------------------
(* Properties of the rate limiter *)

\* C6: for maxRequests >= 1, of the calls made with one key in one window
\* the first maxRequests are passed on and every further one is denied with
\* 429; the first call after the window has elapsed is passed on and its
\* window starts with count 1 (so with max 5 and a window of 60 s the 6th
\* call of a window is denied)
C6_WindowLimit ==
    \A k \in RateKeys :
        (maxRequests >= 1 /\ lastCall.key = k) =>
            /\ lastCall.status = (IF win[k].calls <= maxRequests THEN "next" ELSE "429")
            /\ win[k].calls = 1 =>
                   /\ rateLimitStore[k].present
                   /\ rateLimitStore[k].count = 1
                   /\ rateLimitStore[k].resetTime = win[k].start + LoginWindowMs

\* the 6th call of a window under max 5 and window 60 s was denied, in a
\* window that is not the key's first
C6_Witness ==
    \E k \in RateKeys :
        /\ maxRequests = 5 /\ LoginWindowMs = 60000
        /\ lastCall = [key |-> k, status |-> "429"]
        /\ win[k].calls = 6
        /\ win[k].start > 0

\* C7: however the calls with one key and their downstream handlers overlap,
\* no increment is lost: the stored count is the number of calls passed on in
\* the window, and that number never exceeds maxRequests
C7_NoLostIncrement ==
    \A k \in RateKeys :
        (maxRequests >= 1 /\ rateLimitStore[k].present) =>
            /\ rateLimitStore[k].count = win[k].passed
            /\ win[k].passed <= maxRequests

\* two calls with the same key, both passed on in the same window, have their
\* handlers running at the same time, and a later call was denied
C7_Witness ==
    \E k \in RateKeys :
        /\ now = 0
        /\ inflight = 2
        /\ win[k].passed = 2 /\ win[k].calls > 2
        /\ \A o \in RateKeys \ {k} : win[o].calls = 0

\* C8: a denied call starts no downstream handler and leaves the whole
\* rate-limit store as it was
C8_DeniedCallNoEffect ==
    [][ (win' # win /\ lastCall'.status = "429") =>
            /\ rateLimitStore' = rateLimitStore
            /\ inflight' = inflight
            /\ \A k \in RateKeys : win'[k].passed = win[k].passed ]_vars

\* a call was denied while the store held an expired entry of another key,
\* which a sweep would have deleted
C8_Witness ==
    \E k \in RateKeys :
        /\ lastCall = [key |-> k, status |-> "429"]
        /\ \E o \in RateKeys \ {k} :
               rateLimitStore[o].present /\ rateLimitStore[o].resetTime < now

\* C26: the cleanup loop removes only entries whose window has expired: the
\* store is the never-swept store less some entries, the entry of every open
\* window is in it unchanged, and the next call of every key, with or
\* without the cleanup loop, has the outcome it has on the never-swept store
C26_SweepKeepsOutcomes ==
    /\ \A k \in RateKeys :
           /\ rateLimitStore[k] \in {unswept[k], NoRecord}
           /\ WindowOpen(unswept[k], now) => rateLimitStore[k] = unswept[k]
           /\ rateLimitStore[k] # unswept[k] => unswept[k].resetTime < now
    /\ \A k \in RateKeys, sweep \in BOOLEAN :
           rateLimit(rateLimitStore, k, now, sweep, maxRequests, LoginWindowMs).status
               = rateLimit(unswept, k, now, FALSE, maxRequests, LoginWindowMs).status

\* the cleanup loop has deleted the expired entry of one key during a call of
\* another key, whose window is open and whose latest call was denied
C26_Witness ==
    \E k \in RateKeys : \E o \in RateKeys \ {k} :
        /\ unswept[o].present /\ ~rateLimitStore[o].present
        /\ WindowOpen(rateLimitStore[k], now)
        /\ lastCall = [key |-> k, status |-> "429"]

---------------------------------------------------------------------------
(* Properties of the ingestion and analysis-only routes *)

RecordsOf(c) ==
    {r \in requests : r.id = c} \cup {a \in analyses : a.requestId = c}
        \cup {a \in alerts : a.id = c}

EventsOf(c) == {i \in 1..Len(events) : events[i].call = c}

\* C5: an ingestion call for a tenant id that has no tenant, or whose tenant
\* is inactive, ends with the tenant-not-found answer (404) once the lookup
\* has resolved, and never creates a request, analysis or alert record nor
\* broadcasts an event
C5_UnknownTenantRejected ==
    \A c \in CallIds :
        ( /\ calls[c].kind = "ingress"
          /\ calls[c].tenantId # ""
          /\ ~(getTenant(calls[c].tenantId).found /\ getTenant(calls[c].tenantId).isActive) ) =>
            /\ calls[c].pc \in {"getTenant", "done"}
            /\ (calls[c].pc = "done" /\ calls[c].failedAt = "") => calls[c].response.status = 404
            /\ RecordsOf(c) = {}
            /\ EventsOf(c) = {}

\* an ingestion call for the inactive tenant and one for an id without a
\* tenant were both answered 404
C5_Witness ==
    \E c, d \in CallIds :
        /\ calls[c].kind = "ingress" /\ calls[c].tenantId = "tOff"
        /\ calls[c].pc = "done" /\ calls[c].response.status = 404
        /\ calls[d].kind = "ingress" /\ calls[d].tenantId = "tNone"
        /\ calls[d].pc = "done" /\ calls[d].response.status = 404

\* the rules a call for tenant t is to be analysed with: the four baseline
\* rules, the enabled global rules, the enabled rules of t
RulesFor(t) ==
    LET rows == SelectSeq(WafRuleTable, LAMBDA r : r.enabled /\ r.tenantId = "NULL")
                \o SelectSeq(WafRuleTable, LAMBDA r : r.enabled /\ r.tenantId = t)
    IN  [i \in 1..Len(defaultPatterns) |-> [id |-> defaultPatterns[i].id, tenantId |-> "NULL"]]
        \o [i \in 1..Len(rows) |-> [id |-> rows[i].id, tenantId |-> rows[i].tenantId]]

\* C9: however ingestion and analysis-only calls for different tenants
\* interleave, a call is analysed with exactly the baseline rules, the enabled
\* global rules and the enabled rules of its own tenant, never with a rule of
\* another tenant
C9_OwnTenantRulesOnly ==
    \A c \in CallIds :
        calls[c].analysis.kind = "result" =>
            /\ calls[c].rulesEvaluated = RulesFor(calls[c].tenantId)
            /\ \A i \in 1..Len(calls[c].rulesEvaluated) :
                   calls[c].rulesEvaluated[i].tenantId \in {"NULL", calls[c].tenantId}
            /\ \A i \in 1..Len(calls[c].analysis.matches) :
                   \E j \in 1..Len(calls[c].rulesEvaluated) :
                       calls[c].rulesEvaluated[j].id = calls[c].analysis.matches[i].ruleId

\* an ingestion call for tenant tB is still in flight after its analysis, on
\* content that a rule of tB matched, and an analysis-only call for tenant tA
\* has since overwritten the engine's customRules with the rules of tA and
\* analysed the same content
C9_Witness ==
    \E c, d \in CallIds :
        /\ calls[c].kind = "ingress" /\ calls[c].tenantId = "tB"
        /\ calls[c].pc = "createRequest"
        /\ \E i \in 1..Len(calls[c].analysis.matches) :
               calls[c].analysis.matches[i].ruleId = "b-crit"
        /\ calls[d].kind = "analyze" /\ calls[d].tenantId = "tA"
        /\ calls[d].pc = "done" /\ calls[d].analysis.kind = "result"
        /\ calls[d].request = calls[c].request
        /\ customRules = FilterEnabled(getRulesByTenant("NULL") \o getRulesByTenant("tA"))

\* C10: when createAlert fails after the analysis, the two records and the
\* request broadcast succeeded, the ingestion call still answers with the
\* decision (action, score, match count) and reports no error
C10_AlertFailureNotFatal ==
    \A c \in CallIds :
        (calls[c].kind = "ingress" /\ calls[c].pc = "done"
            /\ calls[c].failedAt = "createAlert") =>
            /\ calls[c].response.status = 200
            /\ calls[c].response.action = calls[c].analysis.action
            /\ calls[c].response.score = calls[c].analysis.score
            /\ calls[c].response.matchCount = Len(calls[c].analysis.matches)

\* C11: when the write of the request record or of the analysis record fails
\* after the analysis succeeded, the ingestion call still answers with the
\* computed decision (action, score, match count) and does not fail
C11_StorageFailureNotFatal ==
    \A c \in CallIds :
        (calls[c].kind = "ingress" /\ calls[c].pc = "done"
            /\ calls[c].analysis.kind = "result"
            /\ calls[c].failedAt \in {"createRequest", "createAnalysis"}) =>
            /\ calls[c].response.status = 200
            /\ calls[c].response.action = calls[c].analysis.action
            /\ calls[c].response.score = calls[c].analysis.score
            /\ calls[c].response.matchCount = Len(calls[c].analysis.matches)

\* C27: once an ingestion call has ended, with an answer or with a failure
\* at any step, the requests table holds a row of the call exactly when the
\* analysis table holds a row with the same request id
C27_RequestIffAnalysis ==
    \A c \in CallIds :
        (calls[c].kind = "ingress" /\ calls[c].pc = "done") =>
            ((\E r \in requests : r.id = c) <=> (\E a \in analyses : a.requestId = c))

\* C28: for every ingestion call answered with its result, the stored
\* request row, the stored analysis row and the answer agree: actionTaken,
\* suggestedAction and finalAction are the returned action with block stored
\* as deny, the stored response code is 403 for block, 429 for challenge and
\* 200 for allow (and for monitor), and the stored total score is the
\* returned score
C28_RecordsAgreeWithAnswer ==
    \A c \in CallIds :
        (calls[c].kind = "ingress" /\ calls[c].pc = "done"
            /\ calls[c].response.status = 200) =>
            LET answer == calls[c].response
                stored == IF answer.action = "block" THEN "deny" ELSE answer.action
                code == CASE answer.action = "block" -> 403
                          [] answer.action = "challenge" -> 429
                          [] OTHER -> 200
            IN  /\ \E r \in requests : r.id = c
                /\ \E a \in analyses : a.requestId = c
                /\ \A r \in requests : r.id = c =>
                       r.actionTaken = stored /\ r.responseCode = code
                /\ \A a \in analyses : a.requestId = c =>
                       /\ a.suggestedAction = stored
                       /\ a.finalAction = stored
                       /\ a.totalScore = answer.score

\* one call was answered with block and the other with challenge, both with
\* status 200
C28_Witness ==
    \E c \in CallIds, o \in CallIds :
        /\ calls[c].kind = "ingress" /\ calls[c].pc = "done"
        /\ calls[c].response.status = 200 /\ calls[c].response.action = "block"
        /\ calls[o].kind = "ingress" /\ calls[o].pc = "done"
        /\ calls[o].response.status = 200 /\ calls[o].response.action = "challenge"
        /\ \E r \in requests : r.id = c /\ r.actionTaken = "deny" /\ r.responseCode = 403
        /\ \E r \in requests : r.id = o /\ r.responseCode = 429

\* the name of a header without its case: header names are case-insensitive
HeaderNameFolded(name) ==
    CASE name = "Cookie" -> "cookie"
      [] name = "Authorization" -> "authorization"
      [] OTHER -> name

CookieHeaders == {"cookie", "set-cookie"}
AuthHeaders == {"authorization", "x-api-key", "x-auth-token", "x-access-token"}

\* C13: the headers stored with a request of a tenant with cookie scrubbing
\* hold no cookie or set-cookie header, and those of a tenant with auth-header
\* scrubbing hold no authorization, API-key or token header
C13_StoredHeadersScrubbed ==
    \A r \in requests :
        LET tenant == getTenant(r.tenantId)
            names == {HeaderNameFolded(r.headersJson[i][1]) : i \in 1..Len(r.headersJson)}
        IN  /\ tenant.scrubCookies => names \cap CookieHeaders = {}
            /\ tenant.scrubAuthHeaders => names \cap AuthHeaders = {}

AlertsOf(c) == {a \in alerts : a.id = c}

AlertEventsOf(c) == {i \in EventsOf(c) : events[i].type = "alert"}

\* the two requests differ at most in the values of cookie and auth headers
SameButScrubbedValues(r1, r2) ==
    /\ r1.method = r2.method /\ r1.path = r2.path
    /\ r1.query = r2.query /\ r1.body = r2.body
    /\ Len(r1.headers) = Len(r2.headers)
    /\ \A i \in 1..Len(r1.headers) :
           /\ r1.headers[i][1] = r2.headers[i][1]
           /\ r1.headers[i][2] # r2.headers[i][2] =>
                  HeaderNameFolded(r1.headers[i][1]) \in CookieHeaders \cup AuthHeaders

\* C30: two answered ingestion calls for a tenant with cookie and auth-header
\* scrubbing whose requests differ only in the value of a cookie or auth
\* header leave request rows that differ only in their id, match excerpts
\* included, analysis rows that differ only in the request id, and the same
\* broadcast events
C30_ScrubbedValuesNotPersisted ==
    \A c \in CallIds, o \in CallIds :
        ( /\ calls[c].kind = "ingress" /\ calls[c].pc = "done"
          /\ calls[c].response.status = 200
          /\ calls[o].kind = "ingress" /\ calls[o].pc = "done"
          /\ calls[o].response.status = 200
          /\ calls[c].tenantId = calls[o].tenantId
          /\ getTenant(calls[c].tenantId).scrubCookies
          /\ getTenant(calls[c].tenantId).scrubAuthHeaders
          /\ SameButScrubbedValues(calls[c].request, calls[o].request) ) =>
            /\ \A r1 \in requests, r2 \in requests :
                   (r1.id = c /\ r2.id = o) => [r1 EXCEPT !.id = c] = [r2 EXCEPT !.id = c]
            /\ \A a1 \in analyses, a2 \in analyses :
                   (a1.requestId = c /\ a2.requestId = o) =>
                       [a1 EXCEPT !.requestId = c] = [a2 EXCEPT !.requestId = c]
            /\ {events[i].type : i \in EventsOf(c)} = {events[i].type : i \in EventsOf(o)}

RequestBeforeAlert(log) ==
    \A i \in 1..Len(log) :
        log[i].type = "alert" =>
            \E j \in 1..(i - 1) : log[j].type = "request" /\ log[j].call = log[i].call

\* C15: a request event is broadcast only once the request record and the
\* analysis record of its call are stored; an alert event is broadcast only
\* once the alert record of its call is stored and after the request event of
\* the same call; a subscriber connected throughout receives the request
\* event of a call before its alert event
C15_StepsInOrder ==
    /\ \A i \in 1..Len(events) :
           LET e == events[i]
           IN  /\ e.type = "request" =>
                      /\ \E r \in requests : r.id = e.call
                      /\ \E a \in analyses : a.requestId = e.call
               /\ e.type = "alert" => AlertsOf(e.call) # {}
    /\ RequestBeforeAlert(events)
    /\ \A t \in DOMAIN TenantTable : RequestBeforeAlert(StreamOf(events, t))

\* two ingestion calls of one tenant overlapped: the request event of the
\* second was broadcast between the request event and the alert event of the
\* first
C15_Witness ==
    \E c, d \in CallIds :
        /\ c # d
        /\ calls[c].tenantId = calls[d].tenantId
        /\ Len(StreamOf(events, calls[c].tenantId)) >= 3
        /\ LET stream == StreamOf(events, calls[c].tenantId)
           IN  /\ stream[1].type = "request" /\ stream[1].call = c
               /\ stream[2].type = "request" /\ stream[2].call = d
               /\ stream[3].type = "alert" /\ stream[3].call = c

\* C16: no step of an analysis-only call creates a request, analysis or alert
\* record or broadcasts an event: the tables and the event sequence are the
\* same after the step as before it
C16_AnalyzeOnlyNoEffect ==
    [][ \A c \in CallIds :
            (calls'[c] # calls[c] /\ calls'[c].kind = "analyze") =>
                /\ requests' = requests
                /\ analyses' = analyses
                /\ alerts' = alerts
                /\ events' = events
                /\ \A t \in DOMAIN TenantTable :
                       StreamOf(events', t) = StreamOf(events, t) ]_vars

\* an analysis-only call was answered with score 100, a score at which an
\* ingestion call stores an alert, while the tables hold only the records of
\* an ingestion call
C16_Witness ==
    \E c, d \in CallIds :
        /\ calls[c].kind = "analyze" /\ calls[c].pc = "done"
        /\ calls[c].response.status = 200 /\ calls[c].response.score = 100
        /\ RecordsOf(c) = {} /\ EventsOf(c) = {}
        /\ calls[d].kind = "ingress" /\ calls[d].pc = "done"
        /\ requests # {} /\ analyses # {} /\ alerts # {} /\ Len(events) = 2

\* C18: an ingestion or analysis-only call of a tenant without a policy
\* record decides with block 70, challenge 50, monitor 30; a call of a tenant
\* with a policy record decides with the three thresholds of the record
C18_ThresholdsFromPolicy ==
    \A c \in CallIds :
        calls[c].analysis.kind = "result" =>
            LET call == calls[c]
                used == IF call.tenantId \in DOMAIN PolicyTable
                        THEN PolicyTable[call.tenantId]
                        ELSE Th(70, 50, 30)
            IN  /\ call.th = used
                /\ call.analysis.action = Decide(call.analysis.score, used)[1]
                /\ call.analysis.reason = Decide(call.analysis.score, used)[2]

\* the same request, of score 75, was challenged in an ingestion call of
\* tenant tA, whose policy has block threshold 100, and blocked in an
\* analysis-only call of tenant tB, which has no policy
C18_Witness ==
    \E c, d \in CallIds :
        /\ calls[c].kind = "ingress" /\ calls[c].tenantId = "tA"
        /\ "tA" \in DOMAIN PolicyTable
        /\ calls[c].analysis.kind = "result" /\ calls[c].analysis.score = 75
        /\ calls[c].analysis.action = "challenge"
        /\ calls[d].kind = "analyze" /\ calls[d].tenantId = "tB"
        /\ "tB" \notin DOMAIN PolicyTable
        /\ calls[d].analysis.kind = "result" /\ calls[d].analysis.score = 75
        /\ calls[d].analysis.action = "block"

---------------------------------------------------------------------------
(* Properties of retention and anonymization *)

\* C17: anonymizing a client IP twice gives what anonymizing it once gives:
\* a stored IPv4 or IPv6 address that anonymizeOldIPs has updated, once or
\* more often, is the truncation of the address first stored, and a further
\* run would leave it as it is
C17_AnonymizeIdempotent ==
    /\ \A r \in requests :
           ipHistory[r.id].passes >= 1 =>
               /\ r.clientIp = AnonymizeIp(ipHistory[r.id].original)
               /\ AnonymizeIp(r.clientIp) = r.clientIp
    /\ \A ip \in ClientIps : AnonymizeIp(AnonymizeIp(ip)) = AnonymizeIp(ip)

\* an IPv4 row and an IPv6 row were each updated by two runs of
\* anonymizeOldIPs, and each holds an address other than the one first stored
C17_Witness ==
    \E r, q \in requests :
        /\ ipHistory[r.id].passes = 2 /\ ipHistory[q.id].passes = 2
        /\ ipHistory[r.id].original = Ipv4Addr /\ r.clientIp # Ipv4Addr
        /\ ipHistory[q.id].original = Ipv6Addr /\ q.clientIp # Ipv6Addr

---------------------------------------------------------------------------
(* Properties of the API *)

\* C21: no API call made by an authenticated viewer changes a stored tenant,
\* policy, rule, alert, webhook, user, override or IP-list record
C21_ViewerReadOnly ==
    [][ ((lastApi' # lastApi \/ records' # records) /\ lastApi'.role = "viewer") =>
            \A k \in RecordKinds \ {"settings"} : records'[k] = records[k] ]_vars

---------------------------------------------------------------------------
(* Properties of the client hook *)

\* C22: after the event stream of a mounted hook has failed with a
\* connection error, the hook eventually is connected again, unless its
\* component has unmounted or has called disconnect in the meantime
C22_ReconnectsAfterError ==
    (hook.mounted /\ hook.failed) ~>
        (hook.isConnected \/ ~hook.mounted \/ ~hook.ref)

====
